---- MODULE Spec2Model ----
(***************************************************************************)
(* Model of src/src/data_ingestion.py: the single-run batch ingestion of   *)
(* Walmart stock quotes (Alpha Vantage) and historical weather             *)
(* (Open-Meteo) into two PostgreSQL tables through per-record upserts.     *)
(*                                                                         *)
(* Three specifications share the definitions below:                       *)
(*   Spec      one run of main(), stage by stage, against a database that  *)
(*             may already hold rows;                                      *)
(*   SpecXform the two transformers applied to raw provider payloads;      *)
(*   SpecConc  two runs loading concurrently through their own             *)
(*             connections into the same two tables.                       *)
(*                                                                         *)
(* Decimal numbers are integers in hundredths (float("12.50") is 1250).    *)
(* Calendar dates are day ordinals.                                        *)
(***************************************************************************)
EXTENDS Integers, Sequences, FiniteSets, TLC

VARIABLES
    env,          \* per run: which required environment variables are set
    pc,           \* per run: position in main()
    resp,         \* per run: the HTTP responses received (stock, weather)
    http,         \* per run: number of HTTP GETs issued to each API
    timeSeries,   \* per run: raw stock payload awaiting transformation
    weatherDaily, \* per run: raw weather payload awaiting transformation
    stockData,    \* per run: processed_stock_data
    weatherData,  \* per run: processed_weather_data
    conn,         \* per run: "none" | "open" | "closed"
    txn,          \* per run: the connection's uncommitted row versions
    idx,          \* per run: records executed in the current insert loop
    outcome,      \* per run: "running" | "SUCCESS" | "FAILURE"
    log,          \* per run: stages started, in order (the logger's output)
    err,          \* per run: the stage whose exception ended the run, or "none"
    ret,          \* per run: how main's inner try block was left
    verif,        \* per run: what the verification queries have fetched
    stockTbl,     \* committed rows of walmart_raw_data
    weatherTbl,   \* committed rows of weather_raw_data
    xfIn,         \* SpecXform: the raw payload handed to a transformer
    xfOut         \* SpecXform: what the transformer did with it

vars == <<env, pc, resp, http, timeSeries, weatherDaily, stockData, weatherData,
          conn, txn, idx, outcome, log, err, ret, verif, stockTbl, weatherTbl,
          xfIn, xfOut>>

(***************************************************************************)
(* Bounds of the model.                                                    *)
(***************************************************************************)
\* longest raw payload (rows of a time series, days of a weather response)
MaxRecs == 2
\* longest list of records a run loads in SpecConc
MaxConcRecs == 2

(***************************************************************************)
(* Values.                                                                 *)
(***************************************************************************)
\* date.today(), as a day ordinal
Today == 1000
\* timedelta(days=365)
YearDays == 365

Null == [k |-> "null", v |-> 0]
Num(n) == [k |-> "num", v |-> n]
\* JSON strings as the stock API sends them: digits only ("12"), digits with
\* a decimal point ("12.50", v in hundredths), anything else ("abc")
IntText(n) == [k |-> "int", v |-> n]
DecText(n) == [k |-> "dec", v |-> n]
BadText == [k |-> "text", v |-> 0]

Ok(v) == [ok |-> TRUE, v |-> v, exc |-> "none"]
Raise(e) == [ok |-> FALSE, v |-> 0, exc |-> e]

\* float(x) of a JSON value
PyFloat(x) ==
    CASE x.k = "int" -> Ok(x.v * 100)
      [] x.k = "dec" -> Ok(x.v)
      [] x.k = "num" -> Ok(x.v)
      [] x.k = "text" -> Raise("ValueError")
      [] OTHER -> Raise("TypeError")

\* int(x) of a JSON value: a string must be digits only, a number is truncated
PyInt(x) ==
    CASE x.k = "int" -> Ok(x.v)
      [] x.k = "num" -> Ok(IF x.v >= 0 THEN x.v \div 100 ELSE -((-x.v) \div 100))
      [] x.k = "dec" -> Raise("ValueError")
      [] x.k = "text" -> Raise("ValueError")
      [] OTHER -> Raise("TypeError")

\* datetime.strptime(s, '%Y-%m-%d').date(): the zero padding is optional
\* when parsing, so "2024-1-5" and "2024-01-05" are the same date
Strptime(s) ==
    IF s.fmt \in {"iso", "unpadded"} THEN Ok(s.day) ELSE Raise("ValueError")

IsoDate(d) == [fmt |-> "iso", day |-> d]
UnpaddedDate(d) == [fmt |-> "unpadded", day |-> d]
BadDate == [fmt |-> "bad", day |-> 0]

Min(S) == CHOOSE x \in S : \A y \in S : x <= y
Max(S) == CHOOSE x \in S : \A y \in S : x >= y
Range(s) == {s[i] : i \in 1..Len(s)}

(***************************************************************************)
(* process_stock_data                                                      *)
(***************************************************************************)
StockFields ==
    <<"1. open", "2. high", "3. low", "4. close", "5. adjusted close",
      "6. volume", "7. dividend amount", "8. split coefficient">>

\* the conversion of field i of a raw row: daily_data[key] then float/int
StockField(row, i) ==
    IF StockFields[i] \notin DOMAIN row THEN Raise("KeyError")
    ELSE IF StockFields[i] = "6. volume" THEN PyInt(row[StockFields[i]])
    ELSE PyFloat(row[StockFields[i]])

\* one iteration of the loop body: "record", "skip" (continue) or "raise"
StockRecord(date_str, row) ==
    LET d == Strptime(date_str)
        bad == {i \in 1..Len(StockFields) : ~StockField(row, i).ok}
    IN  IF ~d.ok THEN [kind |-> "skip", rec |-> <<>>]
        ELSE IF d.v < Today - YearDays THEN [kind |-> "skip", rec |-> <<>>]
        ELSE IF bad # {} THEN
            IF StockField(row, Min(bad)).exc \in {"ValueError", "KeyError"}
            THEN [kind |-> "skip", rec |-> <<>>]
            ELSE [kind |-> "raise", rec |-> <<>>]
        ELSE [kind |-> "record",
              rec |-> [date |-> d.v,
                       open_price |-> StockField(row, 1).v,
                       high_price |-> StockField(row, 2).v,
                       low_price |-> StockField(row, 3).v,
                       close_price |-> StockField(row, 4).v,
                       adjusted_close |-> StockField(row, 5).v,
                       volume |-> StockField(row, 6).v,
                       dividend_amount |-> StockField(row, 7).v,
                       split_coefficient |-> StockField(row, 8).v]]

RECURSIVE ProcessStockFrom(_, _, _)
ProcessStockFrom(ts, i, acc) ==
    IF i > Len(ts) THEN [raised |-> FALSE, out |-> acc]
    ELSE LET r == StockRecord(ts[i][1], ts[i][2])
         IN  CASE r.kind = "raise" -> [raised |-> TRUE, out |-> <<>>]
               [] r.kind = "skip" -> ProcessStockFrom(ts, i + 1, acc)
               [] OTHER -> ProcessStockFrom(ts, i + 1, Append(acc, r.rec))

\* time_series_data is the dict in iteration order: a sequence of
\* <<date_str, daily_data>> with distinct date_str
process_stock_data(ts) == ProcessStockFrom(ts, 1, <<>>)

(***************************************************************************)
(* process_weather_data                                                    *)
(***************************************************************************)
WeatherArrays ==
    <<"temperature_2m_max", "temperature_2m_min", "temperature_2m_mean",
      "relative_humidity_2m_max", "surface_pressure", "windspeed_10m_max",
      "precipitation_sum">>

\* daily_weather_data[key][i]
WeatherCell(daily, key, i) ==
    IF key \notin DOMAIN daily THEN Raise("KeyError")
    ELSE IF i > Len(daily[key]) THEN Raise("IndexError")
    ELSE Ok(daily[key][i])

\* mutant: the two labels swapped
WeatherConditionInverted(precipitation) ==
    IF precipitation.k = "num" /\ precipitation.v = 0
    THEN "Precipitation" ELSE "Clear"

\* 'Clear' if precipitation == 0 else 'Precipitation'
WeatherCondition(precipitation) ==
    IF precipitation.k = "num" /\ precipitation.v = 0
    THEN "Clear" ELSE "Precipitation"

\* f'Precipitation: {precipitation}mm' if precipitation > 0 else 'Clear day';
\* None > 0 is a TypeError
WeatherDescription(precipitation) ==
    IF precipitation.k # "num" THEN Raise("TypeError")
    ELSE IF precipitation.v > 0
         THEN Ok([text |-> "Precipitation", mm |-> precipitation.v])
         ELSE Ok([text |-> "Clear day", mm |-> 0])

\* int(humidity) if humidity is not None else None
Humidity(humidity) ==
    IF humidity.k = "null" THEN Ok(Null)
    ELSE LET h == PyInt(humidity)
         IN  IF h.ok THEN Ok(Num(h.v)) ELSE h

WeatherRecord(daily, i, city) ==
    LET d == Strptime(daily.time[i])
        cell(k) == WeatherCell(daily, WeatherArrays[k], i)
        bad == {k \in 1..Len(WeatherArrays) : ~cell(k).ok}
        hum == Humidity(cell(4).v)
        desc == WeatherDescription(cell(7).v)
        caught == {"ValueError", "KeyError", "IndexError"}
        skip == [kind |-> "skip", rec |-> <<>>]
        raise == [kind |-> "raise", rec |-> <<>>]
    IN  IF ~d.ok THEN skip
        ELSE IF bad # {} THEN
            (IF cell(Min(bad)).exc \in caught THEN skip ELSE raise)
        ELSE IF ~hum.ok THEN
            (IF hum.exc \in caught THEN skip ELSE raise)
        ELSE IF ~desc.ok THEN
            (IF desc.exc \in caught THEN skip ELSE raise)
        ELSE [kind |-> "record",
              rec |-> [date |-> d.v,
                       city |-> city,
                       temperature_avg |-> cell(3).v,
                       temperature_min |-> cell(2).v,
                       temperature_max |-> cell(1).v,
                       humidity |-> hum.v,
                       pressure |-> cell(5).v,
                       wind_speed |-> cell(6).v,
                       weather_condition |-> WeatherCondition(cell(7).v),
                       weather_description |-> desc.v,
                       visibility |-> 1000,
                       uv_index |-> 500]]

RECURSIVE ProcessWeatherFrom(_, _, _, _)
ProcessWeatherFrom(daily, city, i, acc) ==
    IF i > Len(daily.time) THEN [raised |-> FALSE, out |-> acc]
    ELSE LET r == WeatherRecord(daily, i, city)
         IN  CASE r.kind = "raise" -> [raised |-> TRUE, out |-> <<>>]
               [] r.kind = "skip" -> ProcessWeatherFrom(daily, city, i + 1, acc)
               [] OTHER -> ProcessWeatherFrom(daily, city, i + 1, Append(acc, r.rec))

\* daily_weather_data maps 'time' and the seven series to parallel arrays
process_weather_data(daily, city) == ProcessWeatherFrom(daily, city, 1, <<>>)

(***************************************************************************)
(* load_environment_variables and the two fetchers                         *)
(***************************************************************************)
\* mutant: the check of DB_PASSWORD is missing
load_environment_variables_NoPasswordCheck(e) ==
    IF ~e.api_key THEN Raise("ValueError") ELSE Ok(0)

\* e.api_key / e.password: os.getenv returned a non-empty value
load_environment_variables(e) ==
    IF ~e.api_key THEN Raise("ValueError")
    ELSE IF ~e.password THEN Raise("ValueError")
    ELSE Ok(0)

\* response.raise_for_status(): HTTPError for a 4xx or 5xx status
RaiseForStatus(status) == status >= 400 /\ status < 600

SeriesKey == "Time Series (Daily)"

\* mutant: the rate-limit "Note" is not looked for
fetch_walmart_stock_data_NoNoteCheck(rsp) ==
    IF rsp.net # "ok" THEN Raise("RequestException")
    ELSE IF rsp.status >= 400 /\ rsp.status < 600 THEN Raise("RequestException")
    ELSE IF ~rsp.json THEN Raise("RequestException")
    ELSE IF "Error Message" \in rsp.keys THEN Raise("ValueError")
    ELSE IF "Time Series (Daily)" \notin rsp.keys THEN Raise("ValueError")
    ELSE Ok(rsp.series)

\* rsp.net: requests.get returned ("ok") or raised a RequestException;
\* rsp.json: the body parses; rsp.keys: the top-level keys of the body
fetch_walmart_stock_data(rsp) ==
    IF rsp.net # "ok" THEN Raise("RequestException")
    ELSE IF RaiseForStatus(rsp.status) THEN Raise("RequestException")
    ELSE IF ~rsp.json THEN Raise("RequestException")
    ELSE IF "Error Message" \in rsp.keys THEN Raise("ValueError")
    ELSE IF "Note" \in rsp.keys THEN Raise("ValueError")
    ELSE IF SeriesKey \notin rsp.keys THEN Raise("ValueError")
    ELSE Ok(rsp.series)

\* the city the request is made for: an unknown city falls back
FetchCity(city) ==
    IF city \notin {"Bentonville", "New York"} THEN "Bentonville" ELSE city

fetch_historical_weather_data(rsp) ==
    IF rsp.net # "ok" THEN Raise("RequestException")
    ELSE IF RaiseForStatus(rsp.status) THEN Raise("RequestException")
    ELSE IF ~rsp.json THEN Raise("RequestException")
    ELSE IF "daily" \notin rsp.keys THEN Raise("ValueError")
    ELSE IF "time" \notin DOMAIN rsp.daily THEN Raise("KeyError")
    ELSE Ok(rsp.daily)

(***************************************************************************)
(* The two tables and the upsert statements                                *)
(***************************************************************************)
\* mutant: a plain INSERT into a table without its unique constraint
UpsertStockRowNoConflict(tbl, rec) == tbl \cup {rec}

\* INSERT INTO walmart_raw_data ... ON CONFLICT (date) DO UPDATE SET ...
UpsertStockRow(tbl, rec) ==
    IF \E row \in tbl : row.date = rec.date
    THEN {IF row.date = rec.date
          THEN [row EXCEPT !.open_price = rec.open_price,
                           !.high_price = rec.high_price,
                           !.low_price = rec.low_price,
                           !.close_price = rec.close_price,
                           !.adjusted_close = rec.adjusted_close,
                           !.volume = rec.volume,
                           !.dividend_amount = rec.dividend_amount,
                           !.split_coefficient = rec.split_coefficient]
          ELSE row : row \in tbl}
    ELSE tbl \cup {rec}

\* INSERT INTO weather_raw_data ... ON CONFLICT (date, city) DO UPDATE SET ...
UpsertWeatherRow(tbl, rec) ==
    IF \E row \in tbl : row.date = rec.date /\ row.city = rec.city
    THEN {IF row.date = rec.date /\ row.city = rec.city
          THEN [row EXCEPT !.temperature_avg = rec.temperature_avg,
                           !.temperature_min = rec.temperature_min,
                           !.temperature_max = rec.temperature_max,
                           !.humidity = rec.humidity,
                           !.pressure = rec.pressure,
                           !.wind_speed = rec.wind_speed,
                           !.weather_condition = rec.weather_condition,
                           !.weather_description = rec.weather_description,
                           !.visibility = rec.visibility,
                           !.uv_index = rec.uv_index]
          ELSE row : row \in tbl}
    ELSE tbl \cup {rec}

StockKey(rec) == <<rec.date>>
WeatherKey(rec) == <<rec.date, rec.city>>

\* A connection's open transaction: the committed row versions it has
\* replaced (del) and the row versions it has written (add)
EmptyTxn == [del |-> {}, add |-> {}]

\* what the transaction's own statements see (READ COMMITTED)
TxnView(tbl, t) == (tbl \ t.del) \cup t.add

\* the transaction after a statement turned its view into view2
TxnAfter(tbl, view2) == [del |-> tbl \ view2, add |-> view2 \ tbl]

\* conn.commit(): the transaction's row versions become the committed ones
Commit(tbl, t) == (tbl \ t.del) \cup t.add

\* mutant: the handler commits what the transaction had written
RollbackKeepsWrites(tbl, t) == (tbl \ t.del) \cup t.add

\* conn.rollback(): the transaction's row versions are discarded
Rollback(tbl, t) == tbl

\* mutant: "or" for "and"
verify_data_insertion_Either(stock_count, weather_count, queries_ok) ==
    IF ~queries_ok THEN FALSE
    ELSE stock_count > 0 \/ weather_count > 0

\* the rows COUNT(*) counts, and the verdict of verify_data_insertion;
\* queries_ok is FALSE when a query raises psycopg2.Error
verify_data_insertion(stock_count, weather_count, queries_ok) ==
    IF ~queries_ok THEN FALSE
    ELSE stock_count > 0 /\ weather_count > 0

(***************************************************************************)
(* What the two providers and the database may hold                        *)
(***************************************************************************)
D1 == Today - 1
D2 == Today

GoodStockRow(c) ==
    [f \in Range(StockFields) |->
        IF f = "6. volume" THEN IntText(7) ELSE DecText(c)]
WithField(row, f, x) == [row EXCEPT ![f] = x]
WithoutField(row, f) == [g \in (DOMAIN row) \ {f} |-> row[g]]

\* the time series of at most n entries over a set of <<date_str, row>>,
\* the date strings distinct as the keys of a JSON object are
Series(entries, n) ==
    {s \in UNION {[1..k -> entries] : k \in 0..n} :
        \A i, j \in 1..Len(s) : i # j => s[i][1] # s[j][1]}

\* entries a run of main() is given
RunStockEntries ==
    { <<IsoDate(D1), GoodStockRow(1250)>>,
      <<IsoDate(D2), GoodStockRow(1250)>>,
      <<UnpaddedDate(D1), GoodStockRow(1300)>>,
      <<IsoDate(Today - YearDays - 1), GoodStockRow(1250)>>,
      <<BadDate, GoodStockRow(1250)>>,
      <<UnpaddedDate(D2), WithField(GoodStockRow(1250), "4. close", BadText)>>,
      <<UnpaddedDate(D2), WithField(GoodStockRow(1250), "4. close", Null)>> }

NoMeta == [net |-> "none", status |-> 0, json |-> FALSE, keys |-> {}]
Meta(rsp) == [net |-> rsp.net, status |-> rsp.status, json |-> rsp.json,
              keys |-> rsp.keys]

StockKeySets ==
    (SUBSET {"Error Message", "Note", SeriesKey}) \cup {{"Information"}}

StockResponses(entries, n) ==
    { [net |-> "error", status |-> 0, json |-> FALSE, keys |-> {},
       series |-> <<>>] }
    \cup { [net |-> "ok", status |-> st, json |-> FALSE, keys |-> {},
            series |-> <<>>] : st \in {200, 429, 500} }
    \cup { [net |-> "ok", status |-> 200, json |-> TRUE, keys |-> ks,
            series |-> <<>>] : ks \in {k \in StockKeySets : SeriesKey \notin k} }
    \cup { [net |-> "ok", status |-> 200, json |-> TRUE, keys |-> {SeriesKey},
            series |-> s] : s \in Series(entries, n) }
    \cup { [net |-> "ok", status |-> st, json |-> TRUE, keys |-> ks,
            series |-> s] :
              st \in {200, 500},
              ks \in {k \in StockKeySets : SeriesKey \in k},
              s \in Series(entries, 1) }

WeatherKeys == {"time"} \cup Range(WeatherArrays)
ArrayIndex(key) == CHOOSE k \in 1..Len(WeatherArrays) : WeatherArrays[k] = key

GoodDay(ds, p) ==
    [time |-> ds,
     vals |-> <<Num(2500), Num(1200), Num(1850), Num(8550), Num(98000),
                Num(1520), p>>]
WithVal(day, k, x) == [day EXCEPT !.vals[k] = x]

\* the parallel arrays of a sequence of days
Arrays(days) ==
    [key \in WeatherKeys |->
        [i \in 1..Len(days) |->
            IF key = "time" THEN days[i].time
            ELSE days[i].vals[ArrayIndex(key)]]]
DropArray(daily, key) == [g \in (DOMAIN daily) \ {key} |-> daily[g]]
ShortenArray(daily, key) ==
    [daily EXCEPT ![key] = SubSeq(@, 1, Len(@) - 1)]

Days(days, n) == UNION {[1..k -> days] : k \in 0..n}

RunWeatherDays ==
    { GoodDay(IsoDate(D1), Num(0)),
      GoodDay(IsoDate(D2), Num(250)),
      GoodDay(IsoDate(D2), Null),
      GoodDay(BadDate, Num(0)) }

\* the payloads: every sequence of days, and one-day payloads with an array
\* missing or shorter than the others
Dailies(days, n, keys) ==
    { Arrays(ds) : ds \in Days(days, n) }
    \cup { DropArray(Arrays(<<d>>), key) : d \in days, key \in keys }
    \cup { ShortenArray(Arrays(<<d>>), key) : d \in days, key \in keys \ {"time"} }

EmptyDaily == Arrays(<<>>)

\* Open-Meteo's error payload is {"error": true, "reason": ...} and carries
\* no "daily"
WeatherResponses(days, n, keys) ==
    { [net |-> "error", status |-> 0, json |-> FALSE, keys |-> {},
       daily |-> EmptyDaily] }
    \cup { [net |-> "ok", status |-> st, json |-> FALSE, keys |-> {},
            daily |-> EmptyDaily] : st \in {200, 400, 500} }
    \cup { [net |-> "ok", status |-> 200, json |-> TRUE, keys |-> ks,
            daily |-> EmptyDaily] : ks \in {{}, {"error", "reason"}} }
    \cup { [net |-> "ok", status |-> 200, json |-> TRUE, keys |-> {"daily"},
            daily |-> d] : d \in Dailies(days, n, keys) }
    \cup { [net |-> "ok", status |-> 400, json |-> TRUE, keys |-> {"daily"},
            daily |-> d] : d \in Dailies(days, 1, {}) }

OldStockRow(d) ==
    [date |-> d, open_price |-> 900, high_price |-> 900, low_price |-> 900,
     close_price |-> 900, adjusted_close |-> 900, volume |-> 3,
     dividend_amount |-> 0, split_coefficient |-> 100]

OldWeatherRow(d, city) ==
    [date |-> d, city |-> city, temperature_avg |-> Num(500),
     temperature_min |-> Num(100), temperature_max |-> Num(900),
     humidity |-> Null, pressure |-> Num(99000), wind_speed |-> Num(300),
     weather_condition |-> "Precipitation",
     weather_description |-> [text |-> "Precipitation", mm |-> 100],
     visibility |-> 1000, uv_index |-> 500]

InitStockTbls == { {}, {OldStockRow(D1)} }
InitWeatherTbls ==
    { {}, {OldWeatherRow(D1, "Bentonville"), OldWeatherRow(D1, "New York")} }

(***************************************************************************)
(* main(), one action per stage (the two insert loops: one per statement)  *)
(***************************************************************************)
Runs == DOMAIN pc

StageOrder ==
    <<"INIT", "FETCH_STOCK", "TRANSFORM_STOCK", "FETCH_WEATHER",
      "TRANSFORM_WEATHER", "CONNECT", "LOAD_STOCK", "LOAD_WEATHER", "VERIFY">>

\* the logger's line at the start of a stage
Logged(l, stage) ==
    IF Len(l) > 0 /\ l[Len(l)] = stage THEN l ELSE Append(l, stage)

\* mutant: the error is recorded and the run carries on with the next stage
AbortContinues(r, stage) ==
    /\ pc' = [pc EXCEPT ![r] =
                 CASE stage = "INIT" -> "fetch_stock"
                   [] stage = "FETCH_STOCK" -> "process_stock"
                   [] stage = "TRANSFORM_STOCK" -> "fetch_weather"
                   [] stage = "FETCH_WEATHER" -> "process_weather"
                   [] stage = "TRANSFORM_WEATHER" -> "connect"
                   [] OTHER -> "load_stock"]
    /\ outcome' = outcome
    /\ err' = [err EXCEPT ![r] = stage]

\* an exception outside the inner try: the handler of main() returns False
Abort(r, stage) ==
    /\ pc' = [pc EXCEPT ![r] = "done"]
    /\ outcome' = [outcome EXCEPT ![r] = "FAILURE"]
    /\ err' = [err EXCEPT ![r] = stage]

\* mutant: no finally clause, the connection is closed on a return only
ExitInnerTrySkipsFinally(kind) == IF kind = "raise" THEN "done" ELSE "finally"

\* where control goes when the inner try block is left by a return ("True",
\* "False") or by an exception ("raise"): always through its finally clause
ExitInnerTry(kind) == "finally"

Returned(kind) == IF kind = "True" THEN "SUCCESS" ELSE "FAILURE"

Leave(r, kind) ==
    /\ pc' = [pc EXCEPT ![r] = ExitInnerTry(kind)]
    /\ ret' = [ret EXCEPT ![r] = kind]
    /\ outcome' = [outcome EXCEPT ![r] =
                      IF ExitInnerTry(kind) = "done" THEN Returned(kind) ELSE @]

LoadEnv(r) ==
    /\ pc[r] = "init"
    /\ log' = [log EXCEPT ![r] = Logged(@, "INIT")]
    /\ IF load_environment_variables(env[r]).ok
       THEN /\ pc' = [pc EXCEPT ![r] = "fetch_stock"]
            /\ UNCHANGED <<outcome, err>>
       ELSE Abort(r, "INIT")
    /\ UNCHANGED <<env, resp, http, timeSeries, weatherDaily, stockData,
                   weatherData, conn, txn, idx, ret, stockTbl, weatherTbl,
                   verif, xfIn, xfOut>>

FetchStock(r) ==
    /\ pc[r] = "fetch_stock"
    /\ log' = [log EXCEPT ![r] = Logged(@, "FETCH_STOCK")]
    /\ http' = [http EXCEPT ![r].stock = @ + 1]
    /\ \E rsp \in StockResponses(RunStockEntries, MaxRecs) :
          /\ resp' = [resp EXCEPT ![r].stock = Meta(rsp)]
          /\ IF fetch_walmart_stock_data(rsp).ok
             THEN /\ timeSeries' = [timeSeries EXCEPT ![r] =
                                       fetch_walmart_stock_data(rsp).v]
                  /\ pc' = [pc EXCEPT ![r] = "process_stock"]
                  /\ UNCHANGED <<outcome, err>>
             ELSE /\ Abort(r, "FETCH_STOCK")
                  /\ UNCHANGED timeSeries
    /\ UNCHANGED <<env, weatherDaily, stockData, weatherData, conn, txn, idx,
                   ret, stockTbl, weatherTbl, verif, xfIn, xfOut>>

\* lines 395-399: the transformer, then "No valid stock data to insert".
\* The raw payload is not read again and is dropped from the state.
ProcessStock(r) ==
    /\ pc[r] = "process_stock"
    /\ log' = [log EXCEPT ![r] = Logged(@, "TRANSFORM_STOCK")]
    /\ LET res == process_stock_data(timeSeries[r])
       IN  IF res.raised \/ res.out = <<>>
           THEN /\ Abort(r, "TRANSFORM_STOCK")
                /\ UNCHANGED stockData
           ELSE /\ stockData' = [stockData EXCEPT ![r] = res.out]
                /\ pc' = [pc EXCEPT ![r] = "fetch_weather"]
                /\ UNCHANGED <<outcome, err>>
    /\ timeSeries' = [timeSeries EXCEPT ![r] = <<>>]
    /\ UNCHANGED <<env, resp, http, weatherDaily, weatherData, conn, txn, idx,
                   ret, stockTbl, weatherTbl, verif, xfIn, xfOut>>

\* lines 402-407: the request is for min(stock_dates)..max(stock_dates)
FetchWeather(r) ==
    /\ pc[r] = "fetch_weather"
    /\ log' = [log EXCEPT ![r] = Logged(@, "FETCH_WEATHER")]
    /\ http' = [http EXCEPT ![r].weather = @ + 1]
    /\ \E rsp \in WeatherResponses(RunWeatherDays, MaxRecs,
                                   {"time", "precipitation_sum"}) :
          /\ resp' = [resp EXCEPT ![r].weather = Meta(rsp)]
          /\ IF fetch_historical_weather_data(rsp).ok
             THEN /\ weatherDaily' = [weatherDaily EXCEPT ![r] =
                                         fetch_historical_weather_data(rsp).v]
                  /\ pc' = [pc EXCEPT ![r] = "process_weather"]
                  /\ UNCHANGED <<outcome, err>>
             ELSE /\ Abort(r, "FETCH_WEATHER")
                  /\ UNCHANGED weatherDaily
    /\ UNCHANGED <<env, timeSeries, stockData, weatherData, conn, txn, idx,
                   ret, stockTbl, weatherTbl, verif, xfIn, xfOut>>

ProcessWeather(r) ==
    /\ pc[r] = "process_weather"
    /\ log' = [log EXCEPT ![r] = Logged(@, "TRANSFORM_WEATHER")]
    /\ LET res == process_weather_data(weatherDaily[r], FetchCity("Bentonville"))
       IN  IF res.raised
           THEN /\ Abort(r, "TRANSFORM_WEATHER")
                /\ UNCHANGED weatherData
           ELSE /\ weatherData' = [weatherData EXCEPT ![r] = res.out]
                /\ pc' = [pc EXCEPT ![r] = "connect"]
                /\ UNCHANGED <<outcome, err>>
    /\ weatherDaily' = [weatherDaily EXCEPT ![r] = EmptyDaily]
    /\ UNCHANGED <<env, resp, http, timeSeries, stockData, conn, txn, idx,
                   ret, stockTbl, weatherTbl, verif, xfIn, xfOut>>

\* psycopg2.connect succeeds or raises psycopg2.Error
Connect(r) ==
    /\ pc[r] = "connect"
    /\ log' = [log EXCEPT ![r] = Logged(@, "CONNECT")]
    /\ \E connected \in BOOLEAN :
          IF connected
          THEN /\ conn' = [conn EXCEPT ![r] = "open"]
               /\ pc' = [pc EXCEPT ![r] = "load_stock"]
               /\ UNCHANGED <<outcome, err>>
          ELSE /\ Abort(r, "CONNECT")
               /\ UNCHANGED conn
    /\ UNCHANGED <<env, resp, http, timeSeries, weatherDaily, stockData,
                   weatherData, txn, idx, ret, stockTbl, weatherTbl,
                   verif, xfIn, xfOut>>

\* the keys whose rows run q's open transaction has written: PostgreSQL
\* holds their row locks until q commits or rolls back
LockedKeys(q, stage) ==
    IF pc[q] # stage THEN {}
    ELSE IF stage = "load_stock"
         THEN {StockKey(stockData[q][i]) : i \in 1..idx[q]}
         ELSE {WeatherKey(weatherData[q][i]) : i \in 1..idx[q]}

\* mutant: no row locks, an upsert never waits
NeverBlocked(r, stage, key) == FALSE

\* an upsert of a key waits while another transaction holds that row
Blocked(r, stage, key) ==
    \E q \in Runs \ {r} : key \in LockedKeys(q, stage)

\* lines 259-271: one cursor.execute of the loop
UpsertStock(r) ==
    /\ pc[r] = "load_stock"
    /\ idx[r] < Len(stockData[r])
    /\ LET rec == stockData[r][idx[r] + 1]
       IN  /\ ~Blocked(r, "load_stock", StockKey(rec))
           /\ txn' = [txn EXCEPT ![r] =
                         TxnAfter(stockTbl,
                                  UpsertStockRow(TxnView(stockTbl, txn[r]), rec))]
    /\ idx' = [idx EXCEPT ![r] = @ + 1]
    /\ log' = [log EXCEPT ![r] = Logged(@, "LOAD_STOCK")]
    /\ UNCHANGED <<env, pc, resp, http, timeSeries, weatherDaily, stockData,
                   weatherData, conn, outcome, err, ret, stockTbl, weatherTbl,
                   verif, xfIn, xfOut>>

\* lines 274-278: conn.commit() after the loop
CommitStock(r) ==
    /\ pc[r] = "load_stock"
    /\ idx[r] = Len(stockData[r])
    /\ stockTbl' = Commit(stockTbl, txn[r])
    /\ txn' = [txn EXCEPT ![r] = EmptyTxn]
    /\ idx' = [idx EXCEPT ![r] = 0]
    /\ pc' = [pc EXCEPT ![r] = "load_weather"]
    /\ log' = [log EXCEPT ![r] = Logged(@, "LOAD_STOCK")]
    /\ UNCHANGED <<env, resp, http, timeSeries, weatherDaily, stockData,
                   weatherData, conn, outcome, err, ret, weatherTbl,
                   verif, xfIn, xfOut>>

\* lines 280-283: a statement (or the commit) raises psycopg2.Error
StockError(r) ==
    /\ pc[r] = "load_stock"
    /\ stockTbl' = Rollback(stockTbl, txn[r])
    /\ txn' = [txn EXCEPT ![r] = EmptyTxn]
    /\ err' = [err EXCEPT ![r] = "LOAD_STOCK"]
    /\ log' = [log EXCEPT ![r] = Logged(@, "LOAD_STOCK")]
    /\ Leave(r, "raise")
    /\ UNCHANGED <<env, resp, http, timeSeries, weatherDaily, stockData,
                   weatherData, conn, idx, weatherTbl, verif, xfIn, xfOut>>

\* lines 315-330
UpsertWeather(r) ==
    /\ pc[r] = "load_weather"
    /\ idx[r] < Len(weatherData[r])
    /\ LET rec == weatherData[r][idx[r] + 1]
       IN  /\ ~Blocked(r, "load_weather", WeatherKey(rec))
           /\ txn' = [txn EXCEPT ![r] =
                         TxnAfter(weatherTbl,
                                  UpsertWeatherRow(TxnView(weatherTbl, txn[r]), rec))]
    /\ idx' = [idx EXCEPT ![r] = @ + 1]
    /\ log' = [log EXCEPT ![r] = Logged(@, "LOAD_WEATHER")]
    /\ UNCHANGED <<env, pc, resp, http, timeSeries, weatherDaily, stockData,
                   weatherData, conn, outcome, err, ret, stockTbl, weatherTbl,
                   verif, xfIn, xfOut>>

\* lines 333-337
CommitWeather(r) ==
    /\ pc[r] = "load_weather"
    /\ idx[r] = Len(weatherData[r])
    /\ weatherTbl' = Commit(weatherTbl, txn[r])
    /\ txn' = [txn EXCEPT ![r] = EmptyTxn]
    /\ idx' = [idx EXCEPT ![r] = 0]
    /\ pc' = [pc EXCEPT ![r] = "verify"]
    /\ log' = [log EXCEPT ![r] = Logged(@, "LOAD_WEATHER")]
    /\ UNCHANGED <<env, resp, http, timeSeries, weatherDaily, stockData,
                   weatherData, conn, outcome, err, ret, stockTbl,
                   verif, xfIn, xfOut>>

\* lines 339-342
WeatherError(r) ==
    /\ pc[r] = "load_weather"
    /\ weatherTbl' = Rollback(weatherTbl, txn[r])
    /\ txn' = [txn EXCEPT ![r] = EmptyTxn]
    /\ err' = [err EXCEPT ![r] = "LOAD_WEATHER"]
    /\ log' = [log EXCEPT ![r] = Logged(@, "LOAD_WEATHER")]
    /\ Leave(r, "raise")
    /\ UNCHANGED <<env, resp, http, timeSeries, weatherDaily, stockData,
                   weatherData, conn, idx, stockTbl, verif, xfIn, xfOut>>

NoVerif ==
    [stock_count |-> 0, weather_count |-> 0,
     stock_dates |-> <<>>, weather_dates |-> <<>>]

\* SELECT MIN(date), MAX(date): <<>> stands for the (NULL, NULL) of an
\* empty table
DateRange(rows) ==
    IF rows = {} THEN <<>>
    ELSE <<Min({row.date : row \in rows}), Max({row.date : row \in rows})>>

VerifySteps ==
    {"verify", "verify_weather_count", "verify_stock_dates",
     "verify_weather_dates"}

\* lines 351-352: each query is a round trip of its own and sees the rows
\* committed when it runs
VerifyStockCount(r) ==
    /\ pc[r] = "verify"
    /\ log' = [log EXCEPT ![r] = Logged(@, "VERIFY")]
    /\ verif' = [verif EXCEPT ![r].stock_count =
                    Cardinality(TxnView(stockTbl, txn[r]))]
    /\ pc' = [pc EXCEPT ![r] = "verify_weather_count"]
    /\ UNCHANGED <<env, resp, http, timeSeries, weatherDaily, stockData,
                   weatherData, conn, txn, idx, outcome, err, ret, stockTbl,
                   weatherTbl, xfIn, xfOut>>

\* lines 354-355
VerifyWeatherCount(r) ==
    /\ pc[r] = "verify_weather_count"
    /\ verif' = [verif EXCEPT ![r].weather_count =
                    Cardinality(TxnView(weatherTbl, txn[r]))]
    /\ pc' = [pc EXCEPT ![r] = "verify_stock_dates"]
    /\ UNCHANGED <<env, resp, http, timeSeries, weatherDaily, stockData,
                   weatherData, conn, txn, idx, outcome, log, err, ret,
                   stockTbl, weatherTbl, xfIn, xfOut>>

\* lines 358-362
VerifyStockDates(r) ==
    /\ pc[r] = "verify_stock_dates"
    /\ verif' = [verif EXCEPT ![r].stock_dates =
                    DateRange(TxnView(stockTbl, txn[r]))]
    /\ pc' = [pc EXCEPT ![r] = "verify_weather_dates"]
    /\ UNCHANGED <<env, resp, http, timeSeries, weatherDaily, stockData,
                   weatherData, conn, txn, idx, outcome, log, err, ret,
                   stockTbl, weatherTbl, xfIn, xfOut>>

\* lines 364-376, then lines 425-430 of main: the last query, and the
\* verdict over the two counts fetched earlier
VerifyWeatherDates(r) ==
    /\ pc[r] = "verify_weather_dates"
    /\ verif' = [verif EXCEPT ![r].weather_dates =
                    DateRange(TxnView(weatherTbl, txn[r]))]
    /\ LET v == verify_data_insertion(verif[r].stock_count,
                                      verif[r].weather_count, TRUE)
       IN  /\ Leave(r, IF v THEN "True" ELSE "False")
           /\ err' = [err EXCEPT ![r] = IF v THEN @ ELSE "VERIFY"]
    /\ UNCHANGED <<env, resp, http, timeSeries, weatherDaily, stockData,
                   weatherData, conn, txn, idx, log, stockTbl, weatherTbl,
                   xfIn, xfOut>>

\* lines 378-380, then lines 428-430: one of the four queries raises
\* psycopg2.Error
VerifyError(r) ==
    /\ pc[r] \in VerifySteps
    /\ log' = [log EXCEPT ![r] = Logged(@, "VERIFY")]
    /\ LET v == verify_data_insertion(verif[r].stock_count,
                                      verif[r].weather_count, FALSE)
       IN  /\ Leave(r, IF v THEN "True" ELSE "False")
           /\ err' = [err EXCEPT ![r] = IF v THEN @ ELSE "VERIFY"]
    /\ UNCHANGED <<env, resp, http, timeSeries, weatherDaily, stockData,
                   weatherData, conn, txn, idx, verif, stockTbl, weatherTbl,
                   xfIn, xfOut>>

\* lines 432-434, then the return (or the handler of line 436)
Close(r) ==
    /\ pc[r] = "finally"
    /\ conn' = [conn EXCEPT ![r] = "closed"]
    /\ pc' = [pc EXCEPT ![r] = "done"]
    /\ outcome' = [outcome EXCEPT ![r] = Returned(ret[r])]
    /\ UNCHANGED <<env, resp, http, timeSeries, weatherDaily, stockData,
                   weatherData, txn, idx, log, err, ret, stockTbl, weatherTbl,
                   verif, xfIn, xfOut>>

NoXform == [applied |-> FALSE, raised |-> FALSE, out |-> <<>>]
NoPayload == [kind |-> "none", ts |-> <<>>, daily |-> EmptyDaily]

Init ==
    /\ env \in [{1} -> [api_key : BOOLEAN, password : BOOLEAN]]
    /\ pc = [r \in {1} |-> "init"]
    /\ resp = [r \in {1} |-> [stock |-> NoMeta, weather |-> NoMeta]]
    /\ http = [r \in {1} |-> [stock |-> 0, weather |-> 0]]
    /\ timeSeries = [r \in {1} |-> <<>>]
    /\ weatherDaily = [r \in {1} |-> EmptyDaily]
    /\ stockData = [r \in {1} |-> <<>>]
    /\ weatherData = [r \in {1} |-> <<>>]
    /\ conn = [r \in {1} |-> "none"]
    /\ txn = [r \in {1} |-> EmptyTxn]
    /\ idx = [r \in {1} |-> 0]
    /\ outcome = [r \in {1} |-> "running"]
    /\ log = [r \in {1} |-> <<>>]
    /\ err = [r \in {1} |-> "none"]
    /\ ret = [r \in {1} |-> "none"]
    /\ verif = [r \in {1} |-> NoVerif]
    /\ stockTbl \in InitStockTbls
    /\ weatherTbl \in InitWeatherTbls
    /\ xfIn = NoPayload
    /\ xfOut = NoXform

Next ==
    \/ \E r \in Runs : LoadEnv(r)
    \/ \E r \in Runs : FetchStock(r)
    \/ \E r \in Runs : ProcessStock(r)
    \/ \E r \in Runs : FetchWeather(r)
    \/ \E r \in Runs : ProcessWeather(r)
    \/ \E r \in Runs : Connect(r)
    \/ \E r \in Runs : UpsertStock(r)
    \/ \E r \in Runs : CommitStock(r)
    \/ \E r \in Runs : StockError(r)
    \/ \E r \in Runs : UpsertWeather(r)
    \/ \E r \in Runs : CommitWeather(r)
    \/ \E r \in Runs : WeatherError(r)
    \/ \E r \in Runs : VerifyStockCount(r)
    \/ \E r \in Runs : VerifyWeatherCount(r)
    \/ \E r \in Runs : VerifyStockDates(r)
    \/ \E r \in Runs : VerifyWeatherDates(r)
    \/ \E r \in Runs : VerifyError(r)
    \/ \E r \in Runs : Close(r)

Spec == Init /\ [][Next]_vars

(***************************************************************************)
(* SpecXform: the transformers on raw payloads                             *)
(***************************************************************************)
DefectDate == UnpaddedDate(D2)

XfStockEntries ==
    { <<ds, GoodStockRow(1250)>> :
        ds \in {IsoDate(D1), IsoDate(D2), BadDate,
                IsoDate(Today - YearDays), IsoDate(Today - YearDays - 1)} }
    \cup { <<UnpaddedDate(D1), GoodStockRow(1300)>> }
    \cup { <<DefectDate, WithField(GoodStockRow(1250), f, x)>> :
              f \in Range(StockFields), x \in {BadText, Null} }
    \cup { <<DefectDate, WithoutField(GoodStockRow(1250), f)>> :
              f \in Range(StockFields) }
    \cup { <<DefectDate, WithField(GoodStockRow(1250), "6. volume", DecText(750))>>,
           <<IsoDate(Today - YearDays - 1),
             WithField(GoodStockRow(1250), "4. close", Null)>> }

XfWeatherDays ==
    { GoodDay(IsoDate(D1), Num(0)),
      GoodDay(IsoDate(D2), Num(250)),
      GoodDay(UnpaddedDate(D1), Num(1)),
      GoodDay(IsoDate(D2), Num(-50)),
      GoodDay(IsoDate(D2), Null),
      GoodDay(BadDate, Num(0)),
      WithVal(GoodDay(IsoDate(D2), Num(0)), 4, Null),
      WithVal(GoodDay(IsoDate(D1), Num(250)), 4, Num(8599)),
      WithVal(GoodDay(IsoDate(D1), Num(0)), 3, Null) }

InitXform ==
    /\ env = <<>> /\ pc = <<>> /\ resp = <<>> /\ http = <<>>
    /\ timeSeries = <<>> /\ weatherDaily = <<>> /\ stockData = <<>>
    /\ weatherData = <<>> /\ conn = <<>> /\ txn = <<>> /\ idx = <<>>
    /\ outcome = <<>> /\ log = <<>> /\ err = <<>> /\ ret = <<>>
    /\ verif = <<>>
    /\ stockTbl = {} /\ weatherTbl = {}
    /\ xfIn \in { [kind |-> "stock", ts |-> s, daily |-> EmptyDaily] :
                    s \in Series(XfStockEntries, MaxRecs) }
           \cup { [kind |-> "weather", ts |-> <<>>, daily |-> d] :
                    d \in Dailies(XfWeatherDays, MaxRecs, WeatherKeys \ {"time"}) }
    /\ xfOut = NoXform

XformStock ==
    /\ xfIn.kind = "stock"
    /\ ~xfOut.applied
    /\ xfOut' = [applied |-> TRUE,
                 raised |-> process_stock_data(xfIn.ts).raised,
                 out |-> process_stock_data(xfIn.ts).out]
    /\ UNCHANGED <<env, pc, resp, http, timeSeries, weatherDaily, stockData,
                   weatherData, conn, txn, idx, outcome, log, err, ret,
                   stockTbl, weatherTbl, verif, xfIn>>

XformWeather ==
    /\ xfIn.kind = "weather"
    /\ ~xfOut.applied
    /\ xfOut' = [applied |-> TRUE,
                 raised |-> process_weather_data(xfIn.daily, "Bentonville").raised,
                 out |-> process_weather_data(xfIn.daily, "Bentonville").out]
    /\ UNCHANGED <<env, pc, resp, http, timeSeries, weatherDaily, stockData,
                   weatherData, conn, txn, idx, outcome, log, err, ret,
                   stockTbl, weatherTbl, verif, xfIn>>

NextXform == XformStock \/ XformWeather

SpecXform == InitXform /\ [][NextXform]_vars

(***************************************************************************)
(* SpecConc: two runs, each past its transformers, load concurrently       *)
(***************************************************************************)
ConcRuns == {1, 2}

\* the i-th record of run r: every value names the run and the position
ConcStockRec(r, i, d) ==
    [date |-> d, open_price |-> 1000 * r + i, high_price |-> 1000 * r + i,
     low_price |-> 1000 * r + i, close_price |-> 1000 * r + i,
     adjusted_close |-> 1000 * r + i, volume |-> r,
     dividend_amount |-> 0, split_coefficient |-> 100]

ConcWeatherRec(r, i, d) ==
    [date |-> d, city |-> "Bentonville", temperature_avg |-> Num(1000 * r + i),
     temperature_min |-> Num(1000 * r + i), temperature_max |-> Num(1000 * r + i),
     humidity |-> Num(r), pressure |-> Num(98000), wind_speed |-> Num(1520),
     weather_condition |-> WeatherCondition(Num(0)),
     weather_description |-> WeatherDescription(Num(0)).v,
     visibility |-> 1000, uv_index |-> 500]

ConcDates == UNION {[1..n -> {D1, D2}] : n \in 1..MaxConcRecs}

OkMeta(keys) == [net |-> "ok", status |-> 200, json |-> TRUE, keys |-> keys]

InitConc ==
    /\ env = [r \in ConcRuns |-> [api_key |-> TRUE, password |-> TRUE]]
    /\ pc = [r \in ConcRuns |-> "connect"]
    /\ resp = [r \in ConcRuns |->
                  [stock |-> OkMeta({SeriesKey}), weather |-> OkMeta({"daily"})]]
    /\ http = [r \in ConcRuns |-> [stock |-> 1, weather |-> 1]]
    /\ timeSeries = [r \in ConcRuns |-> <<>>]
    /\ weatherDaily = [r \in ConcRuns |-> EmptyDaily]
    /\ \E dss \in [ConcRuns -> ConcDates] :
          /\ stockData = [r \in ConcRuns |->
                [i \in 1..Len(dss[r]) |-> ConcStockRec(r, i, dss[r][i])]]
          /\ weatherData = [r \in ConcRuns |->
                [i \in 1..Len(dss[r]) |-> ConcWeatherRec(r, i, dss[r][i])]]
    /\ conn = [r \in ConcRuns |-> "none"]
    /\ txn = [r \in ConcRuns |-> EmptyTxn]
    /\ idx = [r \in ConcRuns |-> 0]
    /\ outcome = [r \in ConcRuns |-> "running"]
    /\ log = [r \in ConcRuns |-> SubSeq(StageOrder, 1, 5)]
    /\ err = [r \in ConcRuns |-> "none"]
    /\ ret = [r \in ConcRuns |-> "none"]
    /\ verif = [r \in ConcRuns |-> NoVerif]
    /\ stockTbl \in InitStockTbls
    /\ weatherTbl \in InitWeatherTbls
    /\ xfIn = NoPayload
    /\ xfOut = NoXform

NextConc ==
    \/ \E r \in Runs : Connect(r)
    \/ \E r \in Runs : UpsertStock(r)
    \/ \E r \in Runs : CommitStock(r)
    \/ \E r \in Runs : StockError(r)
    \/ \E r \in Runs : UpsertWeather(r)
    \/ \E r \in Runs : CommitWeather(r)
    \/ \E r \in Runs : WeatherError(r)
    \/ \E r \in Runs : VerifyStockCount(r)
    \/ \E r \in Runs : VerifyWeatherCount(r)
    \/ \E r \in Runs : VerifyStockDates(r)
    \/ \E r \in Runs : VerifyWeatherDates(r)
    \/ \E r \in Runs : VerifyError(r)
    \/ \E r \in Runs : Close(r)

SpecConc == InitConc /\ [][NextConc]_vars

(***************************************************************************)
(* Properties                                                              *)
(***************************************************************************)
IsPrefix(s, t) == Len(s) <= Len(t) /\ \A i \in 1..Len(s) : s[i] = t[i]
Last(s) == s[Len(s)]

UniqueStock ==
    \A a, b \in stockTbl : StockKey(a) = StockKey(b) => a = b
UniqueWeather ==
    \A a, b \in weatherTbl : WeatherKey(a) = WeatherKey(b) => a = b

CommitsStock(r) == pc[r] = "load_stock" /\ pc'[r] = "load_weather"
CommitsWeather(r) == pc[r] = "load_weather" /\ pc'[r] = "verify"

\* the last record of a list for each key is the one a commit leaves
StockLaterWins(r) ==
    \A i \in 1..Len(stockData[r]) :
        (\A j \in (i + 1)..Len(stockData[r]) :
            StockKey(stockData[r][j]) # StockKey(stockData[r][i]))
        => /\ stockData[r][i] \in stockTbl'
           /\ Cardinality({row \in stockTbl' :
                              StockKey(row) = StockKey(stockData[r][i])}) = 1
WeatherLaterWins(r) ==
    \A i \in 1..Len(weatherData[r]) :
        (\A j \in (i + 1)..Len(weatherData[r]) :
            WeatherKey(weatherData[r][j]) # WeatherKey(weatherData[r][i]))
        => /\ weatherData[r][i] \in weatherTbl'
           /\ Cardinality({row \in weatherTbl' :
                              WeatherKey(row) = WeatherKey(weatherData[r][i])}) = 1

\* C1: after any sequence of upserts the stock table holds at most one row
\* per date and the weather table at most one per (date, city), and a commit
\* leaves, for each key its run upserted, exactly one row, carrying the
\* values of the run's latest upsert of that key.
C1_OneRowPerKeyLatestValue ==
    /\ [](UniqueStock /\ UniqueWeather)
    /\ [][\A r \in Runs :
            /\ CommitsStock(r) => StockLaterWins(r)
            /\ CommitsWeather(r) => WeatherLaterWins(r)]_vars

\* a run has committed a list that upserts one date twice with different
\* values, and the table holds the later one only
C1_Witness ==
    \E r \in Runs :
        /\ pc[r] = "load_weather"
        /\ Len(stockData[r]) >= 2
        /\ stockData[r][1].date = stockData[r][2].date
        /\ stockData[r][1].close_price # stockData[r][2].close_price
        /\ stockData[r][2] \in stockTbl
        /\ stockData[r][1] \notin stockTbl

\* C2: when a statement of a dataset's load fails, the table is left as it
\* was committed and the transaction's row versions are gone, the error
\* propagates out of the loader, and the run reports FAILURE; a table
\* changes only in the step that commits a whole dataset.
C2_NoPartialCommit ==
    /\ [][\A r \in Runs :
            /\ (err[r] = "none" /\ err'[r] = "LOAD_STOCK")
                  => stockTbl' = stockTbl /\ txn'[r] = EmptyTxn
            /\ (err[r] = "none" /\ err'[r] = "LOAD_WEATHER")
                  => weatherTbl' = weatherTbl /\ txn'[r] = EmptyTxn
            /\ stockTbl' # stockTbl => \E q \in Runs : CommitsStock(q)
            /\ weatherTbl' # weatherTbl => \E q \in Runs : CommitsWeather(q)]_vars
    /\ [](\A r \in Runs :
            err[r] \in {"LOAD_STOCK", "LOAD_WEATHER"}
            => /\ ret[r] = "raise"
               /\ outcome[r] # "SUCCESS"
               /\ pc[r] = "done" => outcome[r] = "FAILURE")

\* the weather load failed after some statements had run, the run reported
\* FAILURE and a record it had upserted is not in the table
C2_Witness ==
    \E r \in Runs :
        /\ err[r] = "LOAD_WEATHER"
        /\ idx[r] > 0
        /\ outcome[r] = "FAILURE"
        /\ \E i \in 1..idx[r] : weatherData[r][i] \notin weatherTbl

\* C3: no run ends with its connection open, and the connection is open
\* from the connect stage until the finally clause.
C3_ConnectionClosed ==
    \A r \in Runs :
        /\ pc[r] = "done" => conn[r] # "open"
        /\ pc[r] \in {"load_stock", "load_weather", "finally"} \cup VerifySteps
              => conn[r] = "open"
        /\ (pc[r] = "done" /\ err[r] \in {"LOAD_STOCK", "LOAD_WEATHER", "VERIFY"})
              => conn[r] = "closed"

\* a run whose stock load raised has ended with its connection closed
C3_Witness ==
    \E r \in Runs :
        pc[r] = "done" /\ err[r] = "LOAD_STOCK" /\ conn[r] = "closed"

\* C4: with the API key or the database password missing, the run makes no
\* HTTP call, opens no connection, and its first step ends it in FAILURE.
C4_MissingEnvAbortsFirst ==
    \A r \in Runs :
        (~env[r].api_key \/ ~env[r].password)
        => /\ http[r].stock = 0 /\ http[r].weather = 0
           /\ conn[r] = "none"
           /\ pc[r] \in {"init", "done"}
           /\ pc[r] = "done" => outcome[r] = "FAILURE" /\ err[r] = "INIT"

\* the password alone is missing and the run has ended in FAILURE
C4_Witness ==
    \E r \in Runs :
        /\ env[r].api_key /\ ~env[r].password
        /\ pc[r] = "done" /\ outcome[r] = "FAILURE"

\* the stages of the claim: both transformers are its one TRANSFORM stage
ClaimedStage(stage) ==
    IF stage \in {"TRANSFORM_STOCK", "TRANSFORM_WEATHER"} THEN "TRANSFORM"
    ELSE stage
ClaimedOrder ==
    <<"INIT", "FETCH_STOCK", "FETCH_WEATHER", "TRANSFORM", "CONNECT",
      "LOAD_STOCK", "LOAD_WEATHER", "VERIFY">>
RECURSIVE ClaimedLog(_)
ClaimedLog(l) ==
    IF l = <<>> THEN <<>>
    ELSE Logged(ClaimedLog(SubSeq(l, 1, Len(l) - 1)), ClaimedStage(Last(l)))

FailureIsFinal(r) ==
    /\ err[r] # "none"
          => /\ log[r] # <<>> /\ Last(log[r]) = err[r]
             /\ pc[r] \in {"finally", "done"}
             /\ outcome[r] # "SUCCESS"
    /\ pc[r] = "done" => outcome[r] \in {"SUCCESS", "FAILURE"}
    /\ outcome[r] = "FAILURE" => err[r] # "none"

\* C5 as stated: the stages run in the order INIT, FETCH_STOCK,
\* FETCH_WEATHER, TRANSFORM, ..., so that transformation starts only after
\* both fetches.
C5_OrderAsStated ==
    \A r \in Runs :
        /\ IsPrefix(ClaimedLog(log[r]), ClaimedOrder)
        /\ FailureIsFinal(r)

\* C5 (amended): the stages run in the order INIT, FETCH_STOCK,
\* TRANSFORM_STOCK, FETCH_WEATHER, TRANSFORM_WEATHER, CONNECT, LOAD_STOCK,
\* LOAD_WEATHER, VERIFY, each after all earlier ones; a stage that fails is
\* the last stage of its run, which ends in FAILURE; SUCCESS is reached
\* only through all nine stages.
C5_StageOrder ==
    \A r \in Runs :
        /\ IsPrefix(log[r], StageOrder)
        /\ FailureIsFinal(r)
        /\ outcome[r] = "SUCCESS" => log[r] = StageOrder

\* a run has ended in SUCCESS
C5_Witness ==
    \E r \in Runs :
        pc[r] = "done" /\ outcome[r] = "SUCCESS" /\ log[r] = StageOrder

\* an input record with nothing wrong: the date parses and lies in the
\* trailing year, every field is present and numeric
ValidStockEntry(e) ==
    /\ e[1].fmt \in {"iso", "unpadded"}
    /\ e[1].day >= Today - YearDays
    /\ \A f \in Range(StockFields) :
          /\ f \in DOMAIN e[2]
          /\ e[2][f].k \in (IF f = "6. volume" THEN {"int"} ELSE {"int", "dec"})

ValidWeatherDay(daily, i) ==
    /\ daily.time[i].fmt \in {"iso", "unpadded"}
    /\ \A key \in Range(WeatherArrays) :
          /\ key \in DOMAIN daily
          /\ i <= Len(daily[key])
    /\ daily["precipitation_sum"][i].k = "num"

\* C6: a record whose conversion fails (bad date, missing field, non-numeric
\* or null value) is skipped on its own: the transformer returns, and its
\* output holds one record for every valid input record.
C6_BadRecordSkipped ==
    xfOut.applied
    => /\ ~xfOut.raised
       /\ xfIn.kind = "stock"
             => Len(xfOut.out) =
                   Cardinality({i \in 1..Len(xfIn.ts) : ValidStockEntry(xfIn.ts[i])})
       /\ xfIn.kind = "weather"
             => Len(xfOut.out) =
                   Cardinality({i \in 1..Len(xfIn.daily.time) :
                                   ValidWeatherDay(xfIn.daily, i)})

FetchFailed(meta, errorKeys, seriesKey) ==
    /\ meta.net # "none"
    /\ \/ meta.net = "error"
       \/ meta.status \notin 200..299
       \/ ~meta.json
       \/ meta.keys \cap errorKeys # {}
       \/ seriesKey \notin meta.keys

AfterFailedFetch(r, stage) ==
    /\ pc[r] = "done" /\ outcome[r] = "FAILURE" /\ err[r] = stage
    /\ conn[r] = "none"
    /\ txn[r] = EmptyTxn
    /\ "LOAD_STOCK" \notin Range(log[r])
    /\ stockTbl \in InitStockTbls /\ weatherTbl \in InitWeatherTbls

\* C7: each run issues at most one GET to each API; a response that is a
\* failure (transport error, non-success status, provider error payload, or
\* no data series) ends the run in FAILURE at that fetch, with no connection
\* opened and no row written.
C7_FetchFailureNoRetry ==
    \A r \in Runs :
        /\ http[r].stock <= 1 /\ http[r].weather <= 1
        /\ FetchFailed(resp[r].stock, {"Error Message", "Note", "Information"},
                       SeriesKey)
              => AfterFailedFetch(r, "FETCH_STOCK") /\ http[r].weather = 0
        /\ FetchFailed(resp[r].weather, {"error"}, "daily")
              => AfterFailedFetch(r, "FETCH_WEATHER")

\* a rate-limit note came in a 200 response that also carried a time series
C7_Witness ==
    \E r \in Runs :
        /\ resp[r].stock.status = 200
        /\ resp[r].stock.keys = {"Note", SeriesKey}
        /\ http[r].stock = 1
        /\ outcome[r] = "FAILURE"

\* C8: SUCCESS is reported only after both loads and the verification ran
\* without error and both counts the verification fetched were positive,
\* the tables being non-empty; a run that verified with a table empty, or
\* whose verification failed, reports FAILURE. In a single run the counts
\* fetched are those of the tables as they stay until the run ends.
C8_SuccessNeedsRows ==
    \A r \in Runs :
        /\ outcome[r] = "SUCCESS"
              => /\ err[r] = "none"
                 /\ {"LOAD_STOCK", "LOAD_WEATHER", "VERIFY"} \subseteq Range(log[r])
                 /\ verif[r].stock_count > 0 /\ verif[r].weather_count > 0
                 /\ stockTbl # {} /\ weatherTbl # {}
        /\ (pc[r] = "done" /\ "VERIFY" \in Range(log[r])
               /\ (stockTbl = {} \/ weatherTbl = {}))
              => outcome[r] = "FAILURE"
        /\ pc[r] \in {"verify_weather_count", "verify_stock_dates",
                      "verify_weather_dates"}
              => verif[r].stock_count = Cardinality(stockTbl)
        /\ pc[r] \in {"verify_stock_dates", "verify_weather_dates"}
              => verif[r].weather_count = Cardinality(weatherTbl)
        /\ (pc[r] = "done" /\ err[r] = "VERIFY") => outcome[r] = "FAILURE"

\* both loads committed, the weather table is empty, the run reports FAILURE
C8_Witness ==
    \E r \in Runs :
        /\ pc[r] = "done" /\ err[r] = "VERIFY" /\ outcome[r] = "FAILURE"
        /\ stockTbl # {} /\ weatherTbl = {}

\* C9: every weather record produced comes from an input day whose
\* precipitation is a number; its label is "Clear" when that number is 0,
\* "Precipitation" when it is positive, and never anything else.
C9_ConditionFromPrecipitation ==
    (xfOut.applied /\ xfIn.kind = "weather")
    => \A j \in 1..Len(xfOut.out) :
          /\ xfOut.out[j].weather_condition \in {"Clear", "Precipitation"}
          /\ \E i \in 1..Len(xfIn.daily.time) :
                LET p == xfIn.daily["precipitation_sum"][i]
                IN  /\ "precipitation_sum" \in DOMAIN xfIn.daily
                    /\ i <= Len(xfIn.daily["precipitation_sum"])
                    /\ xfIn.daily.time[i].day = xfOut.out[j].date
                    /\ p.k = "num"
                    /\ p.v > 0 => xfOut.out[j].weather_description.mm = p.v
                    /\ p.v <= 0 => xfOut.out[j].weather_description.mm = 0
                    /\ p.v = 0 => xfOut.out[j].weather_condition = "Clear"
                    /\ p.v > 0 => xfOut.out[j].weather_condition = "Precipitation"

\* a dry day and a wet day were transformed together
C9_Witness ==
    /\ xfOut.applied /\ xfIn.kind = "weather" /\ Len(xfOut.out) = 2
    /\ xfIn.daily["precipitation_sum"][1] = Num(0)
    /\ xfIn.daily["precipitation_sum"][2] = Num(250)
    /\ xfOut.out[1].weather_condition = "Clear"
    /\ xfOut.out[2].weather_condition = "Precipitation"

RECURSIVE ApplyStock(_, _)
ApplyStock(tbl, recs) ==
    IF recs = <<>> THEN tbl
    ELSE ApplyStock(UpsertStockRow(tbl, recs[1]), SubSeq(recs, 2, Len(recs)))
RECURSIVE ApplyWeather(_, _)
ApplyWeather(tbl, recs) ==
    IF recs = <<>> THEN tbl
    ELSE ApplyWeather(UpsertWeatherRow(tbl, recs[1]), SubSeq(recs, 2, Len(recs)))

RowsFromRuns ==
    /\ \A row \in stockTbl :
          \/ row \in UNION InitStockTbls
          \/ \E r \in Runs : row \in Range(stockData[r])
    /\ \A row \in weatherTbl :
          \/ row \in UNION InitWeatherTbls
          \/ \E r \in Runs : row \in Range(weatherData[r])

\* C10: under every interleaving of two runs' upserts and commits each table
\* holds at most one row per key, every row is a record one of the runs
\* supplied (or a row that was there before), and the same load applied
\* again to the table a commit leaves does not change it.
C10_ConcurrentRunsSafe ==
    /\ [](UniqueStock /\ UniqueWeather /\ RowsFromRuns)
    /\ [][\A r \in Runs :
            /\ CommitsStock(r) => ApplyStock(stockTbl', stockData[r]) = stockTbl'
            /\ CommitsWeather(r)
                  => ApplyWeather(weatherTbl', weatherData[r]) = weatherTbl']_vars

\* both runs upserted the same date and both reported SUCCESS; the stock row
\* of that date is run 1's and the weather row is run 2's
C10_Witness ==
    /\ outcome[1] = "SUCCESS" /\ outcome[2] = "SUCCESS"
    /\ \E a \in Range(stockData[1]) : a.date = D1 /\ a \in stockTbl
    /\ \E b \in Range(stockData[2]) : b.date = D1
    /\ \E c \in Range(weatherData[2]) : c.date = D1 /\ c \in weatherTbl
    /\ \E d \in Range(weatherData[1]) : d.date = D1

====
